---- MODULE Spec2Model ----
(***************************************************************************)
(* Model of ocr-parse.py: the Lambda handler that scans the transactions   *)
(* table page by page, rolls the records up into statistics, writes a      *)
(* summary snapshot to S3 and answers with the summary and the records.    *)
(*                                                                         *)
(* Python values are modelled as follows.                                  *)
(*  - A Decimal is [hi, lo], the coefficient hi * 10^DecPrec + lo of a     *)
(*    decimal whose exponent is common to all amounts; lo stays far below  *)
(*    10^DecPrec, so sums never carry from lo into hi.                     *)
(*  - A float is [float |-> d]: the double float(d) makes of the Decimal d, *)
(*    kept as the Decimal it was made of.                                  *)
(*  - A str is a tuple of one-character strings where the code inspects    *)
(*    its characters (the limit parameter, a textual amount).              *)
(*  - A dict key that is missing is Missing (an amount) or Absent (a        *)
(*    vendor); None is None.                                               *)
(***************************************************************************)
EXTENDS Integers, Sequences, FiniteSets, TLC

----------------------------------------------------------------------------
(* Bounds of the model *)

\* most pages a scan of the table is answered with
MaxPages == 2
\* most records in the table
MaxRecords == 2
\* most records handed to compute_stats when it is exercised on its own
MaxItems == 3
\* the clock runs over 0..MaxClock ticks
MaxClock == 2
\* clock ticks in one UTC second (the sub-second part strftime drops)
TicksPerSec == 2

----------------------------------------------------------------------------
(* Program constants *)

SUMMARY_PREFIX == "summaries/"

\* precision of the decimal module's default context, under which
\* compute_stats does its additions
DecPrec == 28

Absent == "<absent>"
None == "<None>"

Digit == {"0", "1", "2", "3", "4", "5", "6", "7", "8", "9"}

DigitVal(c) ==
    CASE c = "0" -> 0 [] c = "1" -> 1 [] c = "2" -> 2 [] c = "3" -> 3
      [] c = "4" -> 4 [] c = "5" -> 5 [] c = "6" -> 6 [] c = "7" -> 7
      [] c = "8" -> 8 [] c = "9" -> 9

\* str.isdigit(): non-empty and every character a digit
IsDigit(s) == Len(s) > 0 /\ \A i \in 1..Len(s) : s[i] \in Digit

RECURSIVE IntOf(_)
\* int(s) of a string of digits
IntOf(s) ==
    IF Len(s) = 0 THEN 0
    ELSE 10 * IntOf(SubSeq(s, 1, Len(s) - 1)) + DigitVal(s[Len(s)])

----------------------------------------------------------------------------
(* Decimal arithmetic as the decimal module does it *)

Dec(h, l) == [hi |-> h, lo |-> l]

DecZero == Dec(0, 0)

RECURSIVE NumDigits(_)
NumDigits(n) == IF n < 10 THEN 1 ELSE 1 + NumDigits(n \div 10)

RECURSIVE Pow10(_)
Pow10(n) == IF n = 0 THEN 1 ELSE 10 * Pow10(n - 1)

\* digits of the coefficient hi * 10^DecPrec + lo
CoefDigits(x) == IF x.hi = 0 THEN NumDigits(x.lo) ELSE DecPrec + NumDigits(x.hi)

\* The context's rounding (ROUND_HALF_EVEN) of an exact result to DecPrec
\* significant digits: the digits beyond DecPrec, all of them in lo, are
\* dropped, and the kept coefficient goes up by one when they exceed a half,
\* or equal a half with the last kept digit odd.
ContextRound(x) ==
    IF CoefDigits(x) <= DecPrec THEN x
    ELSE LET p == Pow10(CoefDigits(x) - DecPrec)
             q == x.lo \div p
             r == x.lo % p
             half == p \div 2
             up == r > half \/ (r = half /\ q % 2 = 1)
         IN  Dec(x.hi, (IF up THEN q + 1 ELSE q) * p)

\* Decimal.__add__: the exact sum, rounded by the context
DecAdd(a, b) == ContextRound(Dec(a.hi + b.hi, a.lo + b.lo))

DecLess(a, b) == a.hi < b.hi \/ (a.hi = b.hi /\ a.lo < b.lo)

\* Decimal(str(amount)) for an amount that is no Decimal: a str of digits
\* parses, anything else raises decimal.InvalidOperation
ParseDecimal(s) ==
    IF IsDigit(s) THEN [ok |-> TRUE, val |-> Dec(0, IntOf(s))]
    ELSE [ok |-> FALSE, message |-> "[<class 'decimal.ConversionSyntax'>]"]

IsDecimal(v) == DOMAIN v = {"hi", "lo"}

decimal_to_float(value) == [float |-> value]

----------------------------------------------------------------------------
(* Records. A record is [amount, vendor]: amount is Missing, a Decimal or  *)
(* a str; vendor is Absent (no such field), None or a str.                 *)

\* a dict key that is not there, and a str value
Missing == [absent |-> TRUE]
Str(s) == [text |-> s]

\* Optional[int]: <<>> is None, <<n>> is the int n
NoInt == <<>>
Int1(n) == <<n>>

Rec(a, v) == [amount |-> a, vendor |-> v]

normalize_item(item) ==
    [key \in DOMAIN item |->
        IF key = "amount" /\ IsDecimal(item[key])
        THEN decimal_to_float(item[key])
        ELSE item[key]]

serialize_transactions(items) ==
    [i \in 1..Len(items) |-> normalize_item(items[i])]

\* vendor_totals is a dict: a sequence of [key, val] in insertion order
RECURSIVE DictIndex(_, _)
DictIndex(d, k) ==
    IF Len(d) = 0 THEN 0
    ELSE IF d[Len(d)].key = k THEN Len(d)
    ELSE DictIndex(SubSeq(d, 1, Len(d) - 1), k)

DictGet(d, k, default) ==
    IF DictIndex(d, k) = 0 THEN default ELSE d[DictIndex(d, k)].val

DictSet(d, k, v) ==
    IF DictIndex(d, k) = 0 THEN Append(d, [key |-> k, val |-> v])
    ELSE [d EXCEPT ![DictIndex(d, k)].val = v]

\* max(vendor_totals, key=vendor_totals.get): the first key, in iteration
\* order, whose total no later or earlier key exceeds
RECURSIVE MaxKeyFrom(_, _, _)
MaxKeyFrom(d, i, best) ==
    IF i > Len(d) THEN d[best].key
    ELSE MaxKeyFrom(d, i + 1, IF DecLess(d[best].val, d[i].val) THEN i ELSE best)

MaxKey(d) == MaxKeyFrom(d, 2, 1)

\* item.get("amount", Decimal("0")) followed by the isinstance coercion
AmountOf(item) ==
    IF item.amount = Missing THEN [ok |-> TRUE, val |-> DecZero]
    ELSE IF IsDecimal(item.amount) THEN [ok |-> TRUE, val |-> item.amount]
    ELSE ParseDecimal(item.amount.text)

\* item.get("vendor", "Unknown")
VendorOf(item) == IF item.vendor = Absent THEN "Unknown" ELSE item.vendor

\* the loop of compute_stats over items[i..]
RECURSIVE StatsLoop(_, _, _, _)
StatsLoop(items, i, total_amount, vendor_totals) ==
    IF i > Len(items)
    THEN [ok |-> TRUE, total_amount |-> total_amount, vendor_totals |-> vendor_totals]
    ELSE LET amount == AmountOf(items[i])
             vendor == VendorOf(items[i])
         IN  IF ~amount.ok THEN [ok |-> FALSE, message |-> amount.message]
             ELSE StatsLoop(items, i + 1, DecAdd(total_amount, amount.val),
                            DictSet(vendor_totals, vendor,
                                    DecAdd(DictGet(vendor_totals, vendor, DecZero),
                                           amount.val)))

compute_stats(items, now) ==
    LET loop == StatsLoop(items, 1, DecZero, <<>>)
    IN  IF ~loop.ok THEN loop
        ELSE [ok |-> TRUE,
              stats |->
                [total_transactions |-> Len(items),
                 total_amount |-> decimal_to_float(loop.total_amount),
                 biggest_vendor |-> IF Len(loop.vendor_totals) > 0
                                    THEN MaxKey(loop.vendor_totals) ELSE None,
                 generated_at |-> now]]

\* apply_limit with the guard limit < 0: a limit of zero then cuts to nothing
apply_limit_zero_cuts(transactions, limit) ==
    IF limit = NoInt \/ limit[1] < 0 THEN transactions
    ELSE [i \in 1..(IF limit[1] < Len(transactions) THEN limit[1] ELSE Len(transactions))
            |-> transactions[i]]

apply_limit(transactions, limit) ==
    IF limit = NoInt \/ limit[1] <= 0 THEN transactions
    ELSE [i \in 1..(IF limit[1] < Len(transactions) THEN limit[1] ELSE Len(transactions))
            |-> transactions[i]]


----------------------------------------------------------------------------
(* The clock: datetime.utcnow() is the tick count; strftime to the second  *)
(* drops the ticks within the second.                                      *)

Strftime(now) == now \div TicksPerSec

\* a key that leaves the timestamp out
SummaryKeyFixed(timestamp) == <<SUMMARY_PREFIX, "summary-", "latest", ".json">>

SummaryKey(timestamp) == <<SUMMARY_PREFIX, "summary-", timestamp, ".json">>

\* the f-string of build_summary, piece by piece
SummaryText(stats) ==
    <<stats.total_transactions, " transactions captured. Top vendor: ",
      IF stats.biggest_vendor = None \/ stats.biggest_vendor = ""
      THEN "N/A" ELSE stats.biggest_vendor,
      ". Total spend: $", stats.total_amount, ".">>

\* json.dumps({"summary": summary_text, "stats": stats})
SnapshotBody(summary_text, stats) == [summary |-> summary_text, stats |-> stats]

SummaryPayload(summary_text, stats, summary_key) ==
    [status |-> "success", summary |-> summary_text, stats |-> stats,
     summaryKey |-> summary_key]

empty_payload(now) ==
    [status |-> "no_data",
     summary |-> "No transactions yet.",
     stats |-> [total_transactions |-> 0,
                total_amount |-> decimal_to_float(DecZero),
                biggest_vendor |-> None,
                generated_at |-> now],
     summaryKey |-> None,
     transactions |-> <<>>]

ErrorResponse(message) ==
    [statusCode |-> 500, body |-> [status |-> "error", message |-> message]]

OkResponse(body) == [statusCode |-> 200, body |-> body]

\* the limit of the query string: int(limit) when limit is a str of digits
LimitValue(limit) ==
    IF limit # Missing /\ IsDigit(limit.text) THEN Int1(IntOf(limit.text)) ELSE NoInt

----------------------------------------------------------------------------
(* State *)

Requests == {1, 2}

VARIABLES
    table,        \* the transactions table: the pages a full scan is answered with
    objects,      \* the bucket acct-ai-uploads-https: Key -> [Body, ContentType]
    writer,       \* history: Key -> the request whose put_object wrote it last
    clock,        \* datetime.utcnow()
    pc,           \* where each request's lambda_handler stands
    limit_value,  \* lambda_handler's limit_value
    response,     \* scan_all_transactions' response (NoValue before the first scan)
    raw_items,    \* scan_all_transactions' items, then lambda_handler's raw_items
    serialized_transactions,
    stats,
    timestamp,    \* build_summary's timestamp
    result,       \* what lambda_handler returned (NoValue while it runs)
    scanLog,      \* history: the ExclusiveStartKey of each scan call, in order
    putLog,       \* history: each put_object call [Key, Body, ok], in order
    failure,      \* history: what raised in the request ("" when nothing did)
    fn_items,     \* compute_stats exercised on its own: its argument
    fn_out        \* and what it returned (NoValue before the call)

vars == <<table, objects, writer, clock, pc, limit_value, response, raw_items,
          serialized_transactions, stats, timestamp, result, scanLog, putLog,
          failure, fn_items, fn_out>>

reqVars == <<pc, limit_value, response, raw_items, serialized_transactions,
             stats, timestamp, result, scanLog, putLog, failure>>

\* Sequences over S of length lo..hi
SeqsOf(S, lo, hi) == UNION {[1..n -> S] : n \in lo..hi}

\* the i-th record of the table: the records differ from one another, one
\* has neither amount nor vendor
Row(i) ==
    CASE i = 1 -> Rec(Dec(0, 5), "A")
      [] i = 2 -> Rec(Missing, Absent)
      [] OTHER -> Rec(Dec(0, i), "B")

\* the same record with an amount that is a str no Decimal can be made of
BadRow(i) == [Row(i) EXCEPT !.amount = Str(<<"x">>)]

\* what the table holds: up to MaxRecords records, at most one of them bad
Contents ==
    {[i \in 1..n |-> IF i = bad THEN BadRow(i) ELSE Row(i)] :
        n \in 0..MaxRecords, bad \in 0..MaxRecords}

RECURSIVE Flatten(_)
\* the records of a sequence of pages, in page order
Flatten(pages) ==
    IF Len(pages) = 0 THEN <<>>
    ELSE Flatten(SubSeq(pages, 1, Len(pages) - 1)) \o pages[Len(pages)]

RECURSIVE Paged(_, _)
\* the ways the store can cut the records into p pages, empty pages included
Paged(records, p) ==
    IF p = 1 THEN {<<records>>}
    ELSE UNION {{<<SubSeq(records, 1, k)>> \o rest :
                    rest \in Paged(SubSeq(records, k + 1, Len(records)), p - 1)} :
                k \in 0..Len(records)}

\* the tables the handler is run on: one to MaxPages pages
Tables == UNION {Paged(c, p) : c \in Contents, p \in 1..MaxPages}

\* the events the handler is invoked with: [httpMethod, limit]
Limits == {Missing, Str(<<"0">>), Str(<<"1">>), Str(<<"-", "1">>)}
Events ==
    {[httpMethod |-> "GET", limit |-> l] : l \in Limits}
      \cup {[httpMethod |-> "OPTIONS", limit |-> Missing]}

\* the records compute_stats is exercised on
StatsRecords ==
    {Rec(a, v) : a \in {Missing, Dec(0, 4), Dec(1, 0), Dec(1, 6),
                        Str(<<"7">>), Str(<<"x">>)},
                 v \in {Absent, None, "A"}}

\* table.scan(ExclusiveStartKey=start): the page after page start (<<>>: the
\* first), with a LastEvaluatedKey unless it is the last page
TableScan(start) ==
    LET k == IF start = NoInt THEN 1 ELSE start[1] + 1
    IN  IF k < Len(table)
        THEN [Items |-> table[k], LastEvaluatedKey |-> Int1(k)]
        ELSE [Items |-> table[k]]

\* a local that is not bound yet
NoValue == [unbound |-> TRUE]

Idle ==
    /\ pc = [r \in Requests |-> "done"]
    /\ limit_value = [r \in Requests |-> NoInt]
    /\ response = [r \in Requests |-> NoValue]
    /\ raw_items = [r \in Requests |-> <<>>]
    /\ serialized_transactions = [r \in Requests |-> <<>>]
    /\ stats = [r \in Requests |-> NoValue]
    /\ timestamp = [r \in Requests |-> NoInt]
    /\ result = [r \in Requests |-> NoValue]
    /\ scanLog = [r \in Requests |-> <<>>]
    /\ putLog = [r \in Requests |-> <<>>]
    /\ failure = [r \in Requests |-> ""]

Init ==
    /\ table \in Tables
    /\ objects = <<>>
    /\ writer = <<>>
    /\ clock = 0
    /\ pc = [r \in Requests |-> "start"]
    /\ limit_value = [r \in Requests |-> NoInt]
    /\ response = [r \in Requests |-> NoValue]
    /\ raw_items = [r \in Requests |-> <<>>]
    /\ serialized_transactions = [r \in Requests |-> <<>>]
    /\ stats = [r \in Requests |-> NoValue]
    /\ timestamp = [r \in Requests |-> NoInt]
    /\ result = [r \in Requests |-> NoValue]
    /\ scanLog = [r \in Requests |-> <<>>]
    /\ putLog = [r \in Requests |-> <<>>]
    /\ failure = [r \in Requests |-> ""]
    /\ fn_items = <<>>
    /\ fn_out = NoValue

----------------------------------------------------------------------------
(* lambda_handler, one action per step between its calls to the outside *)

\* an except clause that lets the stats computed so far into its body
ExceptHandlerLeaky(r, message) ==
    /\ result' = [result EXCEPT ![r] =
                    [statusCode |-> 500,
                     body |-> [status |-> "error", message |-> message,
                               stats |-> stats[r]]]]
    /\ pc' = [pc EXCEPT ![r] = "done"]

\* the except clause, lines 191-196: the answer made of the exception
ExceptHandler(r, message) ==
    /\ result' = [result EXCEPT ![r] = ErrorResponse(message)]
    /\ pc' = [pc EXCEPT ![r] = "done"]

\* lines 152-165: the OPTIONS preflight, else the limit of the query string
Begin(r) ==
    /\ pc[r] = "start"
    /\ \E event \in Events :
         IF event.httpMethod = "OPTIONS"
         THEN /\ result' = [result EXCEPT ![r] = [statusCode |-> 204, body |-> ""]]
              /\ pc' = [pc EXCEPT ![r] = "done"]
              /\ UNCHANGED limit_value
         ELSE /\ limit_value' = [limit_value EXCEPT ![r] = LimitValue(event.limit)]
              /\ pc' = [pc EXCEPT ![r] = "scan"]
              /\ UNCHANGED result
    /\ UNCHANGED <<table, objects, writer, clock, response, raw_items,
                   serialized_transactions, stats, timestamp, scanLog, putLog,
                   failure, fn_items, fn_out>>

\* a loader that stops after one page
AfterScanStops(answer) == "loaded"

\* line 65: the loop goes on while the answer holds a LastEvaluatedKey
AfterScan(answer) ==
    IF "LastEvaluatedKey" \in DOMAIN answer THEN "page" ELSE "loaded"

\* a loader that keeps the last page only
ExtendOverwrites(items, answer) == answer.Items

\* lines 63 and 67: items.extend(response.get("Items", []))
Extend(items, answer) == items \o answer.Items

\* a scan call that is answered: ScanCall is the call, start its ExclusiveStartKey
Scanned(r, start) ==
    LET answer == TableScan(start)
    IN  /\ response' = [response EXCEPT ![r] = answer]
        /\ raw_items' = [raw_items EXCEPT ![r] = Extend(@, answer)]
        /\ pc' = [pc EXCEPT ![r] = AfterScan(answer)]
        /\ UNCHANGED <<result, failure>>

\* a scan call that raises: the exception reaches the except clause
ScanRaised(r) ==
    /\ ExceptHandler(r, "An error occurred when calling the Scan operation")
    /\ failure' = [failure EXCEPT ![r] = "scan"]
    /\ UNCHANGED <<response, raw_items>>

\* line 62: the first table.scan()
ScanFirst(r) ==
    /\ pc[r] = "scan"
    /\ scanLog' = [scanLog EXCEPT ![r] = Append(@, NoInt)]
    /\ (Scanned(r, NoInt) \/ ScanRaised(r))
    /\ UNCHANGED <<table, objects, writer, clock, limit_value,
                   serialized_transactions, stats, timestamp, putLog,
                   fn_items, fn_out>>

\* the ExclusiveStartKey of the next scan, line 66
NextStartKey(r) == response[r].LastEvaluatedKey

\* line 66: table.scan(ExclusiveStartKey=response["LastEvaluatedKey"])
ScanNext(r) ==
    /\ pc[r] = "page"
    /\ scanLog' = [scanLog EXCEPT ![r] = Append(@, NextStartKey(r))]
    /\ (Scanned(r, NextStartKey(r)) \/ ScanRaised(r))
    /\ UNCHANGED <<table, objects, writer, clock, limit_value,
                   serialized_transactions, stats, timestamp, putLog,
                   fn_items, fn_out>>

\* a handler without the empty-result path
NoItemsNever(items) == FALSE

\* line 169: not raw_items
NoItems(items) == Len(items) = 0

\* lines 169-177: the empty answer, else serialize_transactions and compute_stats
Aggregate(r) ==
    /\ pc[r] = "loaded"
    /\ IF NoItems(raw_items[r])
       THEN /\ result' = [result EXCEPT ![r] = OkResponse(empty_payload(clock))]
            /\ pc' = [pc EXCEPT ![r] = "done"]
            /\ UNCHANGED <<serialized_transactions, stats, failure>>
       ELSE LET computed == compute_stats(raw_items[r], clock)
            IN  /\ serialized_transactions' =
                     [serialized_transactions EXCEPT ![r] =
                        serialize_transactions(raw_items[r])]
                /\ IF computed.ok
                   THEN /\ stats' = [stats EXCEPT ![r] = computed.stats]
                        /\ pc' = [pc EXCEPT ![r] = "publish"]
                        /\ UNCHANGED <<result, failure>>
                   ELSE /\ ExceptHandler(r, computed.message)
                        /\ failure' = [failure EXCEPT ![r] = "amount"]
                        /\ UNCHANGED stats
    /\ UNCHANGED <<table, objects, writer, clock, limit_value, response, raw_items,
                   timestamp, scanLog, putLog, fn_items, fn_out>>

\* lines 98-109 of build_summary: the clock is read for the key
Stamp(r) ==
    /\ pc[r] = "publish"
    /\ timestamp' = [timestamp EXCEPT ![r] = Int1(Strftime(clock))]
    /\ pc' = [pc EXCEPT ![r] = "put"]
    /\ UNCHANGED <<table, objects, writer, clock, limit_value, response, raw_items,
                   serialized_transactions, stats, result, scanLog, putLog,
                   failure, fn_items, fn_out>>

\* lines 180-183: the body of the answer once build_summary has returned
SuccessBody(summary_payload, transactions, limit) ==
    [status |-> summary_payload.status,
     summary |-> summary_payload.summary,
     stats |-> summary_payload.stats,
     summaryKey |-> summary_payload.summaryKey,
     transactions |-> apply_limit(transactions, limit)]

\* the key build_summary writes to
KeyOf(r) == SummaryKey(timestamp[r][1])

\* what s3.put_object does to the bucket when it succeeds
PutObject(bucket, key, body) ==
    [k \in DOMAIN bucket \cup {key} |->
        IF k = key THEN [Body |-> body, ContentType |-> "application/json"]
        ELSE bucket[k]]

\* s3.put_object returns: lines 117-122 and 180-189 make the answer
PutReturned(r) ==
    LET summary_text == SummaryText(stats[r])
        body == SnapshotBody(summary_text, stats[r])
    IN  /\ objects' = PutObject(objects, KeyOf(r), body)
        /\ writer' = [k \in DOMAIN writer \cup {KeyOf(r)} |->
                        IF k = KeyOf(r) THEN r ELSE writer[k]]
        /\ putLog' = [putLog EXCEPT ![r] =
                        Append(@, [Key |-> KeyOf(r), Body |-> body, ok |-> TRUE])]
        /\ result' = [result EXCEPT ![r] =
                        OkResponse(SuccessBody(
                            SummaryPayload(summary_text, stats[r], KeyOf(r)),
                            serialized_transactions[r], limit_value[r]))]
        /\ pc' = [pc EXCEPT ![r] = "done"]
        /\ UNCHANGED failure

\* a build_summary that swallows the exception of put_object and returns
PutRaisedSwallowed(r) ==
    LET summary_text == SummaryText(stats[r])
        body == SnapshotBody(summary_text, stats[r])
    IN  /\ putLog' = [putLog EXCEPT ![r] =
                        Append(@, [Key |-> KeyOf(r), Body |-> body, ok |-> FALSE])]
        /\ result' = [result EXCEPT ![r] =
                        OkResponse(SuccessBody(
                            SummaryPayload(summary_text, stats[r], KeyOf(r)),
                            serialized_transactions[r], limit_value[r]))]
        /\ pc' = [pc EXCEPT ![r] = "done"]
        /\ failure' = [failure EXCEPT ![r] = "put"]
        /\ UNCHANGED <<objects, writer>>

\* s3.put_object raises: nothing is written, the except clause answers
PutRaised(r) ==
    LET summary_text == SummaryText(stats[r])
        body == SnapshotBody(summary_text, stats[r])
    IN  /\ putLog' = [putLog EXCEPT ![r] =
                        Append(@, [Key |-> KeyOf(r), Body |-> body, ok |-> FALSE])]
        /\ ExceptHandler(r, "An error occurred when calling the PutObject operation")
        /\ failure' = [failure EXCEPT ![r] = "put"]
        /\ UNCHANGED <<objects, writer>>

\* lines 110-115: s3.put_object
Put(r) ==
    /\ pc[r] = "put"
    /\ (PutReturned(r) \/ PutRaised(r))
    /\ UNCHANGED <<table, clock, limit_value, response, raw_items,
                   serialized_transactions, stats, timestamp, scanLog,
                   fn_items, fn_out>>

\* time passes
Tick ==
    /\ clock < MaxClock
    /\ clock' = clock + 1
    /\ UNCHANGED <<table, objects, writer, fn_items, fn_out>>
    /\ UNCHANGED reqVars

Next ==
    \/ \E r \in Requests : Begin(r)
    \/ \E r \in Requests : ScanFirst(r)
    \/ \E r \in Requests : ScanNext(r)
    \/ \E r \in Requests : Aggregate(r)
    \/ \E r \in Requests : Stamp(r)
    \/ \E r \in Requests : Put(r)
    \/ Tick

Spec == Init /\ [][Next]_vars

----------------------------------------------------------------------------
(* compute_stats exercised on its own, on every short record sequence *)

InitStats ==
    /\ fn_items \in SeqsOf(StatsRecords, 0, MaxItems)
    /\ fn_out = NoValue
    /\ table = <<<<>>>>
    /\ objects = <<>>
    /\ writer = <<>>
    /\ clock = 0
    /\ Idle

CallComputeStats ==
    /\ fn_out = NoValue
    /\ fn_out' = compute_stats(fn_items, clock)
    /\ UNCHANGED <<table, objects, writer, clock, fn_items>>
    /\ UNCHANGED reqVars

NextStats == CallComputeStats

SpecStats == InitStats /\ [][NextStats]_vars

----------------------------------------------------------------------------
(* Vocabulary of the properties *)

\* the request's load has finished: every scan it issued was answered and the
\* last answer held no LastEvaluatedKey
Loaded(r) ==
    /\ Len(scanLog[r]) > 0
    /\ pc[r] \notin {"scan", "page"}
    /\ failure[r] # "scan"

\* the request has answered with status "success"
IsSuccess(r) ==
    /\ pc[r] = "done"
    /\ result[r].statusCode = 200
    /\ result[r].body.status = "success"

\* the request's put_object was called and returned
HasPut(r) == Len(putLog[r]) > 0 /\ putLog[r][1].ok

\* the scans of the request that were answered so far
Answered(r) ==
    IF response[r] = NoValue THEN 0
    ELSE IF "LastEvaluatedKey" \in DOMAIN response[r]
         THEN response[r].LastEvaluatedKey[1]
         ELSE Len(table)

\* something raised in the request: a scan, the coercion of an amount, the put
Failed(r) ==
    \/ failure[r] # ""
    \/ \E i \in DOMAIN putLog[r] : ~putLog[r][i].ok
    \/ Loaded(r) /\ \E i \in DOMAIN raw_items[r] : ~AmountOf(raw_items[r][i]).ok

Min(a, b) == IF a < b THEN a ELSE b

\* the first min(limit, len) records for a positive limit, else all of them
Truncated(records, limit) ==
    IF limit = NoInt \/ limit[1] <= 0 THEN records
    ELSE SubSeq(records, 1, Min(limit[1], Len(records)))

\* every limit apply_limit can be handed: None, negative, zero, positive
LimitArgs == {NoInt} \cup {Int1(n) : n \in (0 - 1)..(MaxRecords + 1)}

----------------------------------------------------------------------------
(* C1 *)

\* C1: pagination completeness. Once a request's load has finished it has
\* issued exactly as many scans as the table has pages, the first without a
\* start key and each later one with the LastEvaluatedKey the scan before it
\* returned, and its items are the pages' records concatenated in page
\* order, empty pages included.
C1_PaginationComplete ==
    \A r \in Requests :
        Loaded(r) =>
            /\ Len(scanLog[r]) = Len(table)
            /\ scanLog[r][1] = NoInt
            /\ \A k \in 1..(Len(scanLog[r]) - 1) :
                 scanLog[r][k + 1] = TableScan(scanLog[r][k]).LastEvaluatedKey
            /\ raw_items[r] = Flatten(table)

\* a load of two pages, the first one empty and carrying a token
C1_Witness ==
    \E r \in Requests :
        /\ Loaded(r)
        /\ Len(table) = 2
        /\ table[1] = <<>>
        /\ Len(raw_items[r]) = 2
        /\ raw_items[r][1] # raw_items[r][2]

----------------------------------------------------------------------------
(* C2 *)

\* C2: a "success" answer's summaryKey is valid. The request's put_object to
\* exactly that key returned earlier in the request, the body it wrote holds
\* the answer's summary text and stats, and the key is in the bucket; a
\* request whose put_object raised never answers "success".
C2_SummaryKeyValid ==
    \A r \in Requests :
        /\ IsSuccess(r) =>
             /\ \E i \in DOMAIN putLog[r] :
                  /\ putLog[r][i].ok
                  /\ putLog[r][i].Key = result[r].body.summaryKey
                  /\ putLog[r][i].Body.summary = result[r].body.summary
                  /\ putLog[r][i].Body.stats = result[r].body.stats
             /\ result[r].body.summaryKey \in DOMAIN objects
        /\ (\E i \in DOMAIN putLog[r] : ~putLog[r][i].ok) => ~IsSuccess(r)

C2_Witness ==
    \E r \in Requests :
        /\ IsSuccess(r)
        /\ result[r].body.stats.total_transactions = 2
        /\ \E q \in Requests : pc[q] = "done" /\ failure[q] = "put"

----------------------------------------------------------------------------
(* C3 *)

\* C3: the empty-store path. A request whose load returned no record, over
\* any number of empty pages, answers with the fixed "no_data" payload, never
\* calls put_object and wrote no object of the bucket.
C3_EmptyStore ==
    \A r \in Requests :
        (Loaded(r) /\ Len(raw_items[r]) = 0) =>
            /\ pc[r] \in {"loaded", "done"}
            /\ putLog[r] = <<>>
            /\ \A k \in DOMAIN writer : writer[k] # r
            /\ pc[r] = "done" =>
                 /\ result[r].statusCode = 200
                 /\ DOMAIN result[r].body =
                      {"status", "summary", "stats", "summaryKey", "transactions"}
                 /\ result[r].body.status = "no_data"
                 /\ result[r].body.summary = "No transactions yet."
                 /\ result[r].body.stats.total_transactions = 0
                 /\ result[r].body.stats.total_amount = decimal_to_float(DecZero)
                 /\ result[r].body.stats.biggest_vendor = None
                 /\ result[r].body.summaryKey = None
                 /\ result[r].body.transactions = <<>>

\* a request that answered after scanning two empty pages
C3_Witness ==
    \E r \in Requests :
        /\ pc[r] = "done"
        /\ Loaded(r)
        /\ Len(table) = 2
        /\ Len(raw_items[r]) = 0

----------------------------------------------------------------------------
(* C4 *)

\* C4: every failure ends the request with one error answer. A request in
\* which a scan raised, an amount could not be parsed or put_object raised
\* answers with a body of exactly status = "error" and a non-empty message,
\* and no request has an answer before it is done.
C4_ErrorShape ==
    \A r \in Requests :
        /\ pc[r] # "done" => result[r] = NoValue
        /\ (pc[r] = "done" /\ Failed(r)) =>
             /\ result[r].statusCode = 500
             /\ DOMAIN result[r].body = {"status", "message"}
             /\ result[r].body.status = "error"
             /\ result[r].body.message # ""

\* put_object raised after the aggregation had succeeded
C4_Witness ==
    \E r \in Requests :
        /\ pc[r] = "done"
        /\ failure[r] = "put"
        /\ stats[r] # NoValue

----------------------------------------------------------------------------
(* C7 *)

\* C7: the truncation law. apply_limit returns the first min(limit, len)
\* records in order for a positive limit and the records unchanged for None,
\* zero or a negative limit; and the transactions of a "success" answer are
\* that truncation of the normalized records of the table in load order.
C7_TruncationLaw ==
    LET normalized == serialize_transactions(Flatten(table))
    IN  /\ \A limit \in LimitArgs :
             apply_limit(normalized, limit) = Truncated(normalized, limit)
        /\ \A r \in Requests :
             IsSuccess(r) =>
                 result[r].body.transactions = Truncated(normalized, limit_value[r])

\* limit=1 on two records: one transaction, the first in load order
C7_Witness ==
    \E r \in Requests :
        /\ IsSuccess(r)
        /\ limit_value[r] = Int1(1)
        /\ Len(raw_items[r]) = 2
        /\ raw_items[r][1] # raw_items[r][2]
        /\ result[r].body.transactions = <<normalize_item(raw_items[r][1])>>

----------------------------------------------------------------------------
(* C9 *)

\* C9: the order of the steps of one request. put_object is called at most
\* once, and only after the load has ended on an answer with no
\* LastEvaluatedKey and the full record set was normalized and summarized
\* without error; a request that failed in a scan or on an amount has called
\* no put_object and has written no object; each scan call is either answered
\* or the one failed call that ended the request, so none is repeated and
\* none follows a failure or the put.
C9_StepOrder ==
    \A r \in Requests :
        /\ Len(putLog[r]) <= 1
        /\ putLog[r] # <<>> =>
             /\ "LastEvaluatedKey" \notin DOMAIN response[r]
             /\ Len(scanLog[r]) = Len(table)
             /\ raw_items[r] = Flatten(table)
             /\ \A i \in DOMAIN raw_items[r] : AmountOf(raw_items[r][i]).ok
             /\ serialized_transactions[r] = serialize_transactions(raw_items[r])
             /\ stats[r] # NoValue
             /\ stats[r].total_transactions = Len(raw_items[r])
             /\ failure[r] \in {"", "put"}
             /\ pc[r] = "done"
        /\ failure[r] \in {"scan", "amount"} =>
             /\ putLog[r] = <<>>
             /\ \A k \in DOMAIN writer : writer[k] # r
        /\ failure[r] # "" => pc[r] = "done"
        /\ Len(scanLog[r]) = Answered(r) + (IF failure[r] = "scan" THEN 1 ELSE 0)
        /\ \A i, j \in DOMAIN scanLog[r] : i # j => scanLog[r][i] # scanLog[r][j]

\* a malformed amount on the second page: both scans made, no put
C9_Witness ==
    \E r \in Requests :
        /\ failure[r] = "amount"
        /\ Len(scanLog[r]) = 2
        /\ putLog[r] = <<>>
        /\ pc[r] = "done"
        /\ Len(table[1]) = 1
        /\ Len(raw_items[r]) = 2
        /\ ~AmountOf(raw_items[r][2]).ok

----------------------------------------------------------------------------
(* C8 *)

\* the request takes its put_object step
PutStep(r) == pc[r] = "put" /\ pc'[r] = "done"

\* C8 as stated: snapshots are write-once. No put_object, in any sequence or
\* interleaving of requests, targets a key that already holds a snapshot.
C8_WriteOnce ==
    [][\A r \in Requests : PutStep(r) => KeyOf(r) \notin DOMAIN objects]_vars

\* C8 as amended: snapshots are never deleted, a put_object that returns
\* writes the key of its request's timestamp and leaves every other snapshot
\* as it was, and a put_object targets a key that already holds a snapshot
\* exactly when another request whose timestamp is the same UTC second has
\* written its snapshot: that snapshot is then overwritten.
C8_AppendOnlyPerSecond ==
    [][/\ \A k \in DOMAIN objects : k \in DOMAIN objects'
       /\ \A r \in Requests :
            PutStep(r) =>
                /\ KeyOf(r) \in DOMAIN objects <=>
                     \E q \in Requests \ {r} :
                         HasPut(q) /\ timestamp[q] = timestamp[r]
                /\ \A k \in DOMAIN objects \ {KeyOf(r)} : objects'[k] = objects[k]
                /\ HasPut(r)' => KeyOf(r) \in DOMAIN objects'
                /\ ~HasPut(r)' => objects' = objects]_vars

\* two requests published within the same second: one snapshot is left, the
\* later writer's, and both answered "success"; and two requests published
\* in different seconds left two
C8_Witness ==
    /\ \A r \in Requests : IsSuccess(r)
    /\ timestamp[1] = timestamp[2]
    /\ Cardinality(DOMAIN objects) = 1
    /\ stats[1].generated_at # stats[2].generated_at
    /\ objects[KeyOf(1)].Body.stats = stats[writer[KeyOf(1)]]

----------------------------------------------------------------------------
(* C5, C6, C10: compute_stats *)

RECURSIVE ExactSum(_)
\* the sum of the amounts in unbounded precision, a missing amount as zero
ExactSum(items) ==
    IF Len(items) = 0 THEN DecZero
    ELSE LET rest == ExactSum(SubSeq(items, 1, Len(items) - 1))
             last == AmountOf(items[Len(items)]).val
         IN  Dec(rest.hi + last.hi, rest.lo + last.lo)

Returned == fn_out # NoValue /\ fn_out.ok

Permuted(items, p) == [i \in 1..Len(items) |-> items[p[i]]]

\* the records grouped under vendor key v, in order
Group(items, v) == SelectSeq(items, LAMBDA item : VendorOf(item) = v)

VendorKeys(items) == {VendorOf(items[i]) : i \in 1..Len(items)}

FirstIndex(items, v) ==
    CHOOSE i \in 1..Len(items) :
        /\ VendorOf(items[i]) = v
        /\ \A j \in 1..(i - 1) : VendorOf(items[j]) # v

\* C5: for a non-empty record sequence the total that compute_stats converts
\* to float, once, is the exact sum of the amounts, a missing amount counted
\* as zero, and every permutation of the records gives the same total.
C5_ExactTotal ==
    (Returned /\ Len(fn_items) > 0) =>
        /\ fn_out.stats.total_amount.float = ExactSum(fn_items)
        /\ \A p \in Permutations(1..Len(fn_items)) :
             compute_stats(Permuted(fn_items, p), clock).stats.total_amount
                = fn_out.stats.total_amount

\* C6: biggest_vendor is a vendor key of the input, and it is None if and
\* only if the input is empty.
C6_BiggestVendorPresent ==
    Returned =>
        /\ fn_out.stats.biggest_vendor = None <=> Len(fn_items) = 0
        /\ Len(fn_items) > 0 => fn_out.stats.biggest_vendor \in VendorKeys(fn_items)

\* C10: for a non-empty record sequence biggest_vendor is a vendor group
\* whose exact sum no other group's exact sum exceeds, and among the groups
\* that tie for the maximum it is the one whose first record comes first.
C10_BiggestVendorMax ==
    (Returned /\ Len(fn_items) > 0) =>
        LET bv == fn_out.stats.biggest_vendor
            total(v) == ExactSum(Group(fn_items, v))
        IN  /\ bv \in VendorKeys(fn_items)
            /\ \A v \in VendorKeys(fn_items) :
                 /\ ~DecLess(total(bv), total(v))
                 /\ total(v) = total(bv) =>
                      FirstIndex(fn_items, bv) <= FirstIndex(fn_items, v)

====
